---- MODULE Spec2Model ----
(***************************************************************************)
(* Model of the scan-rotation and relevance pipeline of the Reddit         *)
(* automation backend: the rotation cursor kept by local_storage.py /      *)
(* supabase_storage.py, the opportunity store, the relevance classifier of *)
(* reddit_scanner.py and the scan endpoint of main.py.                     *)
(***************************************************************************)
EXTENDS Integers, Sequences, FiniteSets, TLC

(***************************************************************************)
(* Bounds of the model.                                                    *)
(***************************************************************************)
MaxN == 5          \* largest forum universe explored
MaxBatch == 4      \* largest subreddits_per_scan explored
MaxCalls == 8      \* get_next_subreddits calls recorded after a reset
MaxCfgForums == 3  \* forum identifiers the configuration may list
MaxConcScans == 4  \* scan invocations started by the concurrent server processes
MaxTextLen == 3    \* words in the text of a post
MaxStore == 2      \* opportunities appended in the store model
MaxPosts == 2      \* posts the forums hold in the scan model
MaxScore == 2      \* largest score of a post

\* "subreddits_per_scan": 3 of get_default_config
DefaultSubredditsPerScan == 3

\* Names of the forum identifiers; the universe of size n is the first n.
Forums == <<"a", "b", "c", "d", "e", "f", "g", "h">>

VARIABLES
    all_subreddits,   \* the flattened forum universe handed to the scheduler
    batch_size,       \* subreddits_per_scan of the configuration
    next_index,       \* scan_state["next_index"], the persisted cursor
    last_batch,       \* scan_state["last_batch"]
    calls,            \* observations: one record per get_next_subreddits call since the last reset
    subreddits,       \* config["subreddits"]: persona -> list of forum identifiers
    set_order,        \* iteration order of this process's Python sets of identifiers
    pc,               \* per server process: where its scan invocation stands
    loaded,           \* per server process: the next_index its _load_scan_state read
    received,         \* per server process: the batch its last get_next_subreddits returned
    serial,           \* observation: the cursor after the same calls run one after the other
    started,          \* observation: scan invocations started so far
    text,             \* the title and body of the post handed to the classifier
    relevant_signals, \* config["relevant_signals"]
    irrelevant_signals, \* config["irrelevant_signals"]
    verdict,          \* what the classifier returned for text, or NoVerdict
    store,            \* data["opportunities"]: the stored opportunities, in append order
    seen_posts,       \* RedditScanner.seen_posts of the server process
    posts,            \* post id -> forum and text; ids grow with the creation time
    arrived,          \* the posts with an id <= arrived have been posted
    old_upto,         \* the posts with an id <= old_upto are older than the age cutoff
    last_scan,        \* observation: outcome of the latest scan invocation
    committed,        \* observation: per forum, the fetch result when a scan that processed it last appended
    before_reset,     \* observation: cursor, last_batch and calls when reset_scan_state last ran
    last_reply        \* observation: outcome of the latest call of the reply endpoint

rotVars == <<all_subreddits, batch_size, next_index, last_batch, calls>>
cfgVars == <<subreddits, set_order>>
concVars == <<pc, loaded, received, serial, started>>
clsVars == <<text, relevant_signals, irrelevant_signals, verdict>>
scanVars == <<seen_posts, posts, arrived, old_upto, last_scan, committed>>

vars == <<rotVars, cfgVars, concVars, clsVars, store, scanVars, before_reset, last_reply>>

\* What the actions of each part of the model leave alone.
notRot == <<cfgVars, concVars, clsVars, store, scanVars, last_reply>>
notRotCfg == <<concVars, clsVars, store, scanVars, before_reset, last_reply>>
notRotConc == <<cfgVars, clsVars, store, scanVars, before_reset, last_reply>>
notCls == <<rotVars, cfgVars, concVars, store, scanVars, before_reset, last_reply>>
notStore == <<rotVars, cfgVars, concVars, clsVars, scanVars, before_reset, last_reply>>
notScan == <<all_subreddits, batch_size, calls, cfgVars, concVars, clsVars, before_reset, last_reply>>

(***************************************************************************)
(* Helpers.                                                                *)
(***************************************************************************)
Min(a, b) == IF a < b THEN a ELSE b

Range(s) == {s[i] : i \in 1..Len(s)}

\* Python's s[i:j] for 0 <= i and 0 <= j (j is clamped to len(s)).
Slice(s, i, j) == SubSeq(s, i + 1, Min(j, Len(s)))

\* (n + k - 1) // k
CeilDiv(n, k) == (n + k - 1) \div k

(***************************************************************************)
(* get_next_subreddits, as a function of the loaded cursor.                *)
(***************************************************************************)
\* A scheduler that starts from the loaded cursor even when it lies beyond the universe.
StartIndexKept(all, idx) == idx

\* if next_index >= total: next_index = 0
StartIndex(all, idx) == IF idx >= Len(all) THEN 0 ELSE idx

\* end_index = min(next_index + batch_size, total)
EndIndex(all, k, idx) == Min(StartIndex(all, idx) + k, Len(all))

\* batch = all_subreddits[next_index:end_index]
FirstSlice(all, k, idx) == Slice(all, StartIndex(all, idx), EndIndex(all, k, idx))

\* if len(batch) < batch_size and next_index > 0
Wraps(all, k, idx) ==
    /\ Len(FirstSlice(all, k, idx)) < k
    /\ StartIndex(all, idx) > 0

\* A scheduler that returns the short tail slice without wrapping around.
NextBatchNoWrap(all, k, idx) == FirstSlice(all, k, idx)

\* The batch returned by get_next_subreddits.
NextBatch(all, k, idx) ==
    IF Wraps(all, k, idx)
    THEN FirstSlice(all, k, idx) \o Slice(all, 0, k - Len(FirstSlice(all, k, idx)))
    ELSE FirstSlice(all, k, idx)

\* A scheduler that restarts at 0 after the wrap batch instead of at the wrap length.
NewIndexWrapToZero(all, k, idx) ==
    IF Wraps(all, k, idx)
    THEN 0
    ELSE IF EndIndex(all, k, idx) < Len(all) THEN EndIndex(all, k, idx) ELSE 0

\* The cursor get_next_subreddits writes back (state["next_index"]).
NewIndex(all, k, idx) ==
    IF Wraps(all, k, idx)
    THEN k - Len(FirstSlice(all, k, idx))
    ELSE IF EndIndex(all, k, idx) < Len(all) THEN EndIndex(all, k, idx) ELSE 0

\* A batch number that rounds the cursor down instead of up.
CurrentBatchNumberFloor(idx, total, k) ==
    IF idx = 0 THEN CeilDiv(total, k) ELSE idx \div k

\* get_current_batch_number(total_subreddits, batch_size), given the stored cursor.
CurrentBatchNumber(idx, total, k) ==
    IF idx = 0 THEN CeilDiv(total, k) ELSE CeilDiv(idx, k)

(***************************************************************************)
(* dynamic_config: the forum groups of the configuration.                  *)
(***************************************************************************)
Personas == {"warmeggnog", "Cryoschema"}

CfgForums == Range(SubSeq(Forums, 1, MaxCfgForums))

\* All orderings of a finite set, as sequences without repetition.
Orderings(S) ==
    {s \in [1..Cardinality(S) -> S] : \A i, j \in 1..Cardinality(S) : s[i] = s[j] => i = j}

\* "subreddits": {} of get_default_config (a persona without a list has no forums).
DefaultSubreddits == [p \in Personas |-> <<>>]

\* get_all_subreddits: list(set(sub for subs in subreddits.values() for sub in subs)),
\* the set being iterated in the order `order`.
GetAllSubreddits(cfg, order) ==
    SelectSeq(order, LAMBDA x : \E p \in DOMAIN cfg : x \in Range(cfg[p]))

\* list.remove(x): drops the first occurrence of x.
RemoveFirst(s, x) ==
    IF x \notin Range(s) THEN s
    ELSE LET i == CHOOSE i \in 1..Len(s) : s[i] = x /\ \A j \in 1..(i - 1) : s[j] # x
         IN SubSeq(s, 1, i - 1) \o SubSeq(s, i + 1, Len(s))

(***************************************************************************)
(* reddit_scanner: the relevance classifier.  A text is a sequence of      *)
(* words; a phrase is contained in a text when its words occur in it       *)
(* consecutively (Python's `phrase in text` on the words joined by blanks).*)
(***************************************************************************)
Words == {"interview", "prep", "tips", "study", "scam", "leetcode", "Scam", "Tips"}

\* str.lower() of one word
LowerWord(w) ==
    CASE w = "Scam" -> "scam"
      [] w = "Tips" -> "tips"
      [] OTHER -> w

\* text.lower()
Lower(t) == [i \in 1..Len(t) |-> LowerWord(t[i])]

\* phrase in t
Contains(t, phrase) ==
    \E i \in 0..(Len(t) - Len(phrase)) :
        \A j \in 1..Len(phrase) : t[i + j] = phrase[j]

\* KEYWORDS of config.py that the words above can spell, the broad keyword last.
Keywords ==
    << <<"interview", "prep">>, <<"interview", "tips">>, <<"leetcode", "prep">>,
       <<"interview">> >>

\* The broad keyword: matched_keywords == ["interview"]
CatchAll == << <<"interview">> >>

\* strong_disqualifiers of is_relevant_to_interview_query (those the words can spell)
StrongDisqualifiers == { <<"scam">> }

\* strong_qualifiers of is_relevant_to_interview_query (those the words can spell)
StrongQualifiers == { <<"interview", "prep">>, <<"interview", "tips">>, <<"leetcode">> }

\* IQ_RELEVANT_SIGNALS of config.py that the words can spell
SignalPool == << <<"prep">>, <<"tips">>, <<"study">> >>

\* matches_keywords(text): the configured keywords contained in the lower-cased
\* text, in configuration order.
MatchesKeywords(t) ==
    IF t = <<>> THEN <<>>
    ELSE SelectSeq(Keywords, LAMBDA kw : Contains(Lower(t), Lower(kw)))

HasDisqualifier(t) == \E d \in StrongDisqualifiers : Contains(Lower(t), d)

HasQualifier(t) == \E q \in StrongQualifiers : Contains(Lower(t), q)

\* sum(1 for signal in relevant_signals if signal in text_lower)
RelevantCount(t, signals) ==
    Cardinality({i \in 1..Len(signals) : Contains(Lower(t), signals[i])})

\* A classifier that lets a strong qualifier override the disqualifiers.
IsRelevantQualifierFirst(t, signals) ==
    IF t = <<>> THEN FALSE
    ELSE IF HasQualifier(t) THEN TRUE
    ELSE IF HasDisqualifier(t) THEN FALSE
    ELSE RelevantCount(t, signals) >= 2

\* A classifier that is content with a single relevant signal.
IsRelevantOneSignal(t, signals) ==
    IF t = <<>> THEN FALSE
    ELSE IF HasDisqualifier(t) THEN FALSE
    ELSE IF HasQualifier(t) THEN TRUE
    ELSE RelevantCount(t, signals) >= 1

\* A classifier whose veto also reads the configured irrelevant signals.
IsRelevantVetoConfigured(t, signals) ==
    IF t = <<>> THEN FALSE
    ELSE IF HasDisqualifier(t) THEN FALSE
    ELSE IF \E i \in 1..Len(irrelevant_signals) :
                Contains(Lower(t), Lower(irrelevant_signals[i])) THEN FALSE
    ELSE IF HasQualifier(t) THEN TRUE
    ELSE RelevantCount(t, signals) >= 2

\* is_relevant_to_interview_query(text)
IsRelevantToInterviewQuery(t, signals) ==
    IF t = <<>> THEN FALSE
    ELSE IF HasDisqualifier(t) THEN FALSE
    ELSE IF HasQualifier(t) THEN TRUE
    ELSE RelevantCount(t, signals) >= 2

\* high_intent_signals of get_intent_level (those the words can spell)
HighIntentSignals == { <<"interview", "prep">> }

\* An intent level that looks at the high-intent phrases only.
GetIntentLevelPhrasesOnly(t, matched) ==
    IF \E sig \in HighIntentSignals : Contains(Lower(t), sig) THEN "HIGH" ELSE "LOW"

\* An intent level that looks at the phrases and at the first matched keyword only.
GetIntentLevelFirstKeyword(t, matched) ==
    IF \E sig \in HighIntentSignals : Contains(Lower(t), sig) THEN "HIGH"
    ELSE IF matched # <<>> /\ Contains(Lower(matched[1]), <<"interview">>) THEN "HIGH"
    ELSE "LOW"

\* get_intent_level(text, matched_keywords)
GetIntentLevel(t, matched) ==
    IF \E sig \in HighIntentSignals : Contains(Lower(t), sig) THEN "HIGH"
    ELSE IF \E i \in 1..Len(matched) : Contains(Lower(matched[i]), <<"interview">>) THEN "HIGH"
    ELSE "LOW"

\* A gate that puts every matching post through the relevance check.
AcceptedGateAll(t) ==
    /\ MatchesKeywords(t) # <<>>
    /\ IsRelevantToInterviewQuery(t, relevant_signals)

\* The post passes the keyword match and, when only the broad keyword
\* matched, the relevance check (scan_subreddit, the matched_keywords branch).
Accepted(t) ==
    /\ MatchesKeywords(t) # <<>>
    /\ ~(MatchesKeywords(t) = CatchAll /\ ~IsRelevantToInterviewQuery(t, relevant_signals))

(***************************************************************************)
(* Values of the parts of the state a specification does not exercise.     *)
(***************************************************************************)
Procs == {1, 2}

CfgIdle ==
    /\ subreddits = DefaultSubreddits
    /\ set_order = Forums

NoVerdict ==
    [done |-> FALSE, keywords |-> <<>>, relevant |-> FALSE, emitted |-> FALSE,
     intent |-> "none"]

ClsIdle ==
    /\ text = <<>>
    /\ relevant_signals = <<>>
    /\ verdict = NoVerdict
    /\ irrelevant_signals = <<>>

NoScan ==
    [batch |-> <<>>, results |-> <<>>, new |-> <<>>, ok |-> TRUE, before |-> {},
     failed |-> {}, generated |-> TRUE, total |-> 0, from |-> 0]

ScanForums == {"a", "b"}

NeverCommitted == [f \in ScanForums |-> [done |-> FALSE, fetch |-> <<>>]]

NeverReset == [done |-> FALSE, cursor |-> 0, last_batch |-> <<>>, calls |-> <<>>]

\* status and reply_url of an opportunity that is not in the store
Absent == [status |-> "absent", reply_url |-> ""]

NoReply ==
    [done |-> FALSE, backend |-> "none", id |-> <<>>, failed |-> FALSE,
     before |-> Absent, after |-> Absent]

ScanIdle ==
    /\ seen_posts = {}
    /\ posts = <<>>
    /\ arrived = 0
    /\ old_upto = 0
    /\ last_scan = NoScan
    /\ committed = NeverCommitted
    /\ before_reset = NeverReset
    /\ last_reply = NoReply

RotIdle ==
    /\ all_subreddits = <<>>
    /\ batch_size = DefaultSubredditsPerScan
    /\ next_index = 0
    /\ last_batch = <<>>
    /\ calls = <<>>

ConcIdle ==
    /\ pc = [p \in Procs |-> "idle"]
    /\ loaded = [p \in Procs |-> 0]
    /\ received = [p \in Procs |-> <<>>]
    /\ serial = 0
    /\ started = 0

(***************************************************************************)
(* Rotation with a fixed universe and batch size.                          *)
(***************************************************************************)
InitRot ==
    /\ \E n \in 1..MaxN : all_subreddits = SubSeq(Forums, 1, n)
    /\ batch_size \in 1..MaxBatch
    /\ next_index = 0
    /\ last_batch = <<>>
    /\ calls = <<>>
    /\ CfgIdle
    /\ ConcIdle
    /\ ClsIdle
    /\ store = <<>>
    /\ ScanIdle

\* storage.get_next_subreddits followed by storage.get_current_batch_number,
\* as trigger_scan calls them.
GetNextSubreddits ==
    /\ Len(calls) < MaxCalls
    /\ next_index' = NewIndex(all_subreddits, batch_size, next_index)
    /\ last_batch' = NextBatch(all_subreddits, batch_size, next_index)
    /\ calls' = Append(calls,
                  [batch  |-> NextBatch(all_subreddits, batch_size, next_index),
                   cursor |-> next_index',
                   number |-> CurrentBatchNumber(next_index', Len(all_subreddits), batch_size)])
    /\ UNCHANGED <<all_subreddits, batch_size, notRot, before_reset>>

\* A reset that writes the cursor but leaves the stored last_batch in place.
ResetKeepsLastBatch ==
    /\ next_index' = 0
    /\ calls' = <<>>
    /\ before_reset' = [done |-> TRUE, cursor |-> next_index, last_batch |-> last_batch,
                        calls |-> calls]
    /\ UNCHANGED <<all_subreddits, batch_size, last_batch, notRot>>

\* A reset that clears last_batch but leaves the stored cursor in place.
ResetKeepsCursor ==
    /\ last_batch' = <<>>
    /\ calls' = <<>>
    /\ before_reset' = [done |-> TRUE, cursor |-> next_index, last_batch |-> last_batch,
                        calls |-> calls]
    /\ UNCHANGED <<all_subreddits, batch_size, next_index, notRot>>

\* storage.reset_scan_state
ResetScanState ==
    /\ next_index' = 0
    /\ last_batch' = <<>>
    /\ calls' = <<>>
    /\ before_reset' = [done |-> TRUE, cursor |-> next_index, last_batch |-> last_batch,
                        calls |-> calls]
    /\ UNCHANGED <<all_subreddits, batch_size, notRot>>

NextRot == GetNextSubreddits \/ ResetScanState

SpecRot == InitRot /\ [][NextRot]_vars

\* The scenario of the rotation example: universe [a,b,c,d,e], batch size 3.
Scenario == all_subreddits = <<"a", "b", "c", "d", "e">> /\ batch_size = 3

\* C1: from reset with universe [a,b,c,d,e] and batch size 3, the first three
\* get_next_subreddits calls return [a,b,c], [d,e,a], [b,c,d] and leave the
\* persisted cursor at 3, 1 and 4.
C1_ScenarioBatches ==
    Scenario =>
        /\ Len(calls) >= 1 => calls[1].batch = <<"a", "b", "c">> /\ calls[1].cursor = 3
        /\ Len(calls) >= 2 => calls[2].batch = <<"d", "e", "a">> /\ calls[2].cursor = 1
        /\ Len(calls) >= 3 => calls[3].batch = <<"b", "c", "d">> /\ calls[3].cursor = 4

C1_Witness == Scenario /\ Len(calls) = 3 /\ next_index = 4

\* C2 (as claimed): in the scenario the batch number reported after the three
\* calls is 1, then 2, then 1.
C2_ScenarioBatchNumbers ==
    Scenario =>
        /\ Len(calls) >= 1 => calls[1].number = 1
        /\ Len(calls) >= 2 => calls[2].number = 2
        /\ Len(calls) >= 3 => calls[3].number = 1

\* C3: with a fixed universe of N identifiers and batch size k, every window of
\* ceil(N/k) consecutive get_next_subreddits calls returns every identifier.
C3_WindowCoversUniverse ==
    LET t == CeilDiv(Len(all_subreddits), batch_size) IN
    \A i \in 1..Len(calls) :
        i + t - 1 <= Len(calls) =>
            UNION {Range(calls[j].batch) : j \in i..(i + t - 1)} = Range(all_subreddits)

\* A window that does not start at the reset cursor and needs the wrap batch.
C3_Witness ==
    LET t == CeilDiv(Len(all_subreddits), batch_size) IN
    /\ t >= 2
    /\ Len(all_subreddits) % batch_size # 0
    /\ Len(calls) >= t + 1
    /\ calls[1].cursor # 0

\* C4 (as claimed): after exactly ceil(N/k) calls from reset the reported
\* batch number equals total_batches = ceil(N/k).
C4_CycleEndsAtTotal ==
    LET t == CeilDiv(Len(all_subreddits), batch_size) IN
    Len(calls) >= t => calls[t].number = t

\* C14: reset_scan_state leaves the cursor at 0 and last_batch empty whatever
\* the state it ran in (a state a reset just produced included, so a second
\* reset changes nothing), and the first get_next_subreddits after a reset
\* returns the first min(k, N) identifiers of the universe.
C14_ResetRestartsRotation ==
    before_reset.done =>
        /\ calls = <<>> => (next_index = 0 /\ last_batch = <<>>)
        /\ calls # <<>> =>
               calls[1].batch =
                   SubSeq(all_subreddits, 1, Min(batch_size, Len(all_subreddits)))

\* A reset that ran with the cursor inside the universe and a batch stored,
\* followed by a call.
C14_Witness ==
    /\ before_reset.done
    /\ before_reset.cursor > 0
    /\ before_reset.last_batch # <<>>
    /\ Len(calls) >= 1

\* The cursor the i-th call of a run started from (a run starts at a reset).
StartCursor(run, i) == IF i = 1 THEN 0 ELSE run[i - 1].cursor

C18_PassIsConsecutiveSlices ==
    LET n == Len(all_subreddits)
        k == batch_size
        t == CeilDiv(n, k)
        remainder == n - k * (t - 1)
    IN k <= n =>
        \A i \in 1..Min(Len(calls), t) :
            calls[i].batch =
                IF i < t
                THEN SubSeq(all_subreddits, (i - 1) * k + 1, i * k)
                ELSE SubSeq(all_subreddits, (t - 1) * k + 1, n)
                         \o SubSeq(all_subreddits, 1, k - remainder)

\* A pass of three batches that ends with a wrap batch.
C18_Witness ==
    /\ batch_size <= Len(all_subreddits)
    /\ Len(all_subreddits) % batch_size # 0
    /\ CeilDiv(Len(all_subreddits), batch_size) >= 3
    /\ Len(calls) >= CeilDiv(Len(all_subreddits), batch_size)

\* C30: with a fixed universe and batch size, the batch number read after
\* each call since the last reset lies in 1..ceil(N/k).
C30_BatchNumberInRange ==
    \A i \in 1..Len(calls) :
        /\ calls[i].number >= 1
        /\ calls[i].number <= CeilDiv(Len(all_subreddits), batch_size)

\* A pass with a wrapping batch: the numbers 1 and ceil(N/k) >= 2 were both
\* reported, the former after the cursor wrapped into the universe.
C30_Witness ==
    /\ Len(calls) >= 3
    /\ CeilDiv(Len(all_subreddits), batch_size) >= 2
    /\ \E i \in 1..Len(calls) :
           calls[i].number = CeilDiv(Len(all_subreddits), batch_size)
    /\ \E i \in 2..Len(calls) :
           /\ calls[i].cursor > 0
           /\ calls[i].cursor < calls[i - 1].cursor
           /\ calls[i].number = 1

(***************************************************************************)
(* Rotation while the configuration changes between scans.                 *)
(***************************************************************************)
InitCfg ==
    /\ subreddits = DefaultSubreddits
    /\ set_order \in Orderings(CfgForums)
    /\ batch_size = DefaultSubredditsPerScan
    /\ all_subreddits = <<>>
    /\ next_index = 0
    /\ last_batch = <<>>
    /\ calls = <<>>
    /\ ConcIdle
    /\ ClsIdle
    /\ store = <<>>
    /\ ScanIdle

\* dynamic_config.add_subreddit(subreddit, persona)
AddSubreddit(sub, persona) ==
    /\ sub \notin Range(subreddits[persona])
    /\ subreddits' = [subreddits EXCEPT ![persona] = Append(@, sub)]
    /\ UNCHANGED <<rotVars, set_order, notRotCfg>>

\* dynamic_config.remove_subreddit(subreddit)
RemoveSubreddit(sub) ==
    /\ \E p \in Personas : sub \in Range(subreddits[p])
    /\ subreddits' = [p \in Personas |-> RemoveFirst(subreddits[p], sub)]
    /\ UNCHANGED <<rotVars, set_order, notRotCfg>>

\* The configuration file is rewritten with another "subreddits_per_scan".
SetSubredditsPerScan(k) ==
    /\ k # batch_size
    /\ batch_size' = k
    /\ UNCHANGED <<all_subreddits, next_index, last_batch, calls, cfgVars, notRotCfg>>

\* trigger_scan's rotation step: the universe and the batch size are read from
\* the configuration and handed to storage.get_next_subreddits.
ScanNextSubreddits ==
    LET all == GetAllSubreddits(subreddits, set_order) IN
    /\ all_subreddits' = all
    /\ next_index' = NewIndex(all, batch_size, next_index)
    /\ last_batch' = NextBatch(all, batch_size, next_index)
    /\ UNCHANGED <<batch_size, calls, cfgVars, notRotCfg>>

\* reset_scan
ResetCfg ==
    /\ next_index' = 0
    /\ last_batch' = <<>>
    /\ UNCHANGED <<all_subreddits, batch_size, calls, cfgVars, notRotCfg>>

NextCfg ==
    \/ \E sub \in CfgForums, persona \in Personas : AddSubreddit(sub, persona)
    \/ \E sub \in CfgForums : RemoveSubreddit(sub)
    \/ \E k \in 1..MaxBatch : SetSubredditsPerScan(k)
    \/ ScanNextSubreddits
    \/ ResetCfg

SpecCfg == InitCfg /\ [][NextCfg]_vars

\* C5 (as claimed): in every reachable state 0 <= cursor <= N, N being the
\* current size of the forum universe, whatever scans, resets and
\* configuration changes came before.
C5_CursorWithinUniverse ==
    /\ 0 <= next_index
    /\ next_index <= Len(GetAllSubreddits(subreddits, set_order))

CaseForums == {"sql", "SQL", "python"}

\* str.lower() of a forum identifier
LowerName(sub) == IF sub = "SQL" THEN "sql" ELSE sub

InitCase ==
    /\ subreddits = DefaultSubreddits
    /\ set_order \in Orderings(CaseForums)
    /\ RotIdle
    /\ ConcIdle
    /\ ClsIdle
    /\ store = <<>>
    /\ ScanIdle

NextCase ==
    \/ \E sub \in CaseForums, persona \in Personas : AddSubreddit(sub, persona)
    \/ \E sub \in CaseForums : RemoveSubreddit(sub)

SpecCase == InitCase /\ [][NextCase]_vars

\* C19 (as claimed): whatever add_subreddit and remove_subreddit calls came
\* before, no two identifiers of the list get_all_subreddits returns are
\* equal when compared case-insensitively.
C19_CaseInsensitivelyUnique ==
    LET all == GetAllSubreddits(subreddits, set_order) IN
    \A i, j \in 1..Len(all) : LowerName(all[i]) = LowerName(all[j]) => i = j

(***************************************************************************)
(* Rotation across restarts of the server process, the configuration file  *)
(* staying as it is.  The scan state and the configuration are persisted;  *)
(* the order in which a Python set of strings is iterated depends on the   *)
(* string hashes of the process, which are salted anew at every start.     *)
(***************************************************************************)
\* Forum lists a persona may have in the configuration file.
RestartLists == {<<>>, SubSeq(Forums, 1, 2), SubSeq(Forums, 1, MaxCfgForums)}

InitRestart ==
    /\ subreddits \in [Personas -> RestartLists]
    /\ set_order \in Orderings(CfgForums)
    /\ batch_size \in {1, DefaultSubredditsPerScan}
    /\ all_subreddits = <<>>
    /\ next_index = 0
    /\ last_batch = <<>>
    /\ calls = <<>>
    /\ ConcIdle
    /\ ClsIdle
    /\ store = <<>>
    /\ ScanIdle

\* The server process is started again: its sets of identifiers get another
\* iteration order and the scanner object, with its seen_posts, is built anew.
Restart ==
    /\ set_order' \in Orderings(CfgForums) \ {set_order}
    /\ seen_posts' = {}
    /\ UNCHANGED <<rotVars, subreddits, concVars, clsVars, store, posts, arrived, old_upto,
                   last_scan, committed, before_reset, last_reply>>

NextRestart == ScanNextSubreddits \/ Restart

SpecRestart == InitRestart /\ [][NextRestart]_vars

\* C16 (as claimed): the configuration being unchanged, the universe a scan
\* invocation hands to get_next_subreddits is the same ordered list as the one
\* the invocation before it handed over, a restart in between or not.
C16_SameUniverseEveryScan ==
    [][all_subreddits # <<>> => all_subreddits' = all_subreddits]_vars

(***************************************************************************)
(* Two server processes scanning against the same persisted scan state.    *)
(* get_next_subreddits reads the state (_load_scan_state) and writes it    *)
(* back (_save_scan_state) as two separate storage operations.             *)
(***************************************************************************)
InitConc ==
    /\ \E n \in 1..MaxN : all_subreddits = SubSeq(Forums, 1, n)
    /\ batch_size \in 1..MaxBatch
    /\ next_index = 0
    /\ last_batch = <<>>
    /\ calls = <<>>
    /\ CfgIdle
    /\ ConcIdle
    /\ ClsIdle
    /\ store = <<>>
    /\ ScanIdle

\* get_next_subreddits up to its read: state = _load_scan_state()
LoadScanState(p) ==
    /\ pc[p] = "idle"
    /\ started < MaxConcScans
    /\ started' = started + 1
    /\ loaded' = [loaded EXCEPT ![p] = next_index]
    /\ pc' = [pc EXCEPT ![p] = "loaded"]
    /\ UNCHANGED <<rotVars, received, serial, notRotConc>>

\* get_next_subreddits from its read on: the batch is computed from the value
\* read and _save_scan_state(state) overwrites the stored state.
SaveScanState(p) ==
    /\ pc[p] = "loaded"
    /\ next_index' = NewIndex(all_subreddits, batch_size, loaded[p])
    /\ last_batch' = NextBatch(all_subreddits, batch_size, loaded[p])
    /\ received' = [received EXCEPT ![p] = NextBatch(all_subreddits, batch_size, loaded[p])]
    /\ serial' = NewIndex(all_subreddits, batch_size, serial)
    /\ pc' = [pc EXCEPT ![p] = "idle"]
    /\ UNCHANGED <<all_subreddits, batch_size, calls, loaded, started, notRotConc>>

NextConc == \E p \in Procs : LoadScanState(p) \/ SaveScanState(p)

SpecConc == InitConc /\ [][NextConc]_vars

\* C6 (as claimed): the cursor is read-modify-written atomically per scan: two
\* invocations are never both computing their batch from the same cursor
\* value, and once they have finished the cursor has advanced once per
\* invocation (no lost update).
C6_AtomicCursorUpdate ==
    /\ \A p, q \in Procs :
           (p # q /\ pc[p] = "loaded" /\ pc[q] = "loaded") => loaded[p] # loaded[q]
    /\ (\A p \in Procs : pc[p] = "idle") => next_index = serial

(***************************************************************************)
(* The classifier applied to the texts of up to MaxTextLen words, under    *)
(* every choice of configured relevant signals.                            *)
(***************************************************************************)
Texts == UNION {[1..n -> Words] : n \in 0..MaxTextLen}

SignalLists == {SelectSeq(SignalPool, LAMBDA sig : sig \in S) : S \in SUBSET Range(SignalPool)}

InitCls ==
    /\ text \in Texts
    /\ relevant_signals \in SignalLists
    /\ verdict = NoVerdict
    /\ irrelevant_signals = <<>>
    /\ RotIdle
    /\ CfgIdle
    /\ ConcIdle
    /\ store = <<>>
    /\ ScanIdle

\* matches_keywords(text), is_relevant_to_interview_query(text), the gate of
\* scan_subreddit and get_intent_level(text, matched_keywords) on one text
Classify ==
    /\ ~verdict.done
    /\ verdict' = [done |-> TRUE,
                   keywords |-> MatchesKeywords(text),
                   relevant |-> IsRelevantToInterviewQuery(text, relevant_signals),
                   emitted |-> Accepted(text),
                   intent |-> GetIntentLevel(text, MatchesKeywords(text))]
    /\ UNCHANGED <<text, relevant_signals, irrelevant_signals, notCls>>

NextCls == Classify

SpecCls == InitCls /\ [][NextCls]_vars

\* C9: a text that contains both a disqualifying phrase and a strong-qualifier
\* phrase is classified not relevant.
C9_VetoBeforeQualifier ==
    (verdict.done /\ HasDisqualifier(text) /\ HasQualifier(text))
        => verdict.relevant = FALSE

C9_Witness ==
    /\ verdict.done
    /\ text = <<"interview", "prep", "Scam">>
    /\ verdict.relevant = FALSE

\* The distinct configured relevant signals the lower-cased text contains.
SignalsContained ==
    {sig \in Range(relevant_signals) : Contains(Lower(text), sig)}

C23_GateOnlyForCatchAll ==
    verdict.done =>
        /\ verdict.keywords = <<>> => ~verdict.emitted
        /\ verdict.keywords = CatchAll => (verdict.emitted <=> verdict.relevant)
        /\ (verdict.keywords # <<>> /\ verdict.keywords # CatchAll) => verdict.emitted

\* A text matching a specific keyword is emitted although the relevance
\* check rejects it.
C23_Witness ==
    /\ verdict.done
    /\ text = <<"interview", "tips", "scam">>
    /\ verdict.keywords = << <<"interview", "tips">>, <<"interview">> >>
    /\ ~verdict.relevant
    /\ verdict.emitted

\* C25: the intent level is HIGH exactly when the lower-cased text contains
\* a high-intent phrase or a matched keyword contains "interview", and LOW
\* otherwise, whatever the relevance check and the gate decided.
C25_IntentLevel ==
    verdict.done =>
        /\ verdict.intent \in {"HIGH", "LOW"}
        /\ verdict.intent = "HIGH" <=>
              \/ \E sig \in HighIntentSignals : Contains(Lower(text), sig)
              \/ \E i \in 1..Len(verdict.keywords) :
                     Contains(Lower(verdict.keywords[i]), <<"interview">>)

\* A text the gate rejects still has intent HIGH.
C25_Witness ==
    /\ verdict.done
    /\ text = <<"interview", "Scam">>
    /\ ~verdict.relevant
    /\ ~verdict.emitted
    /\ verdict.intent = "HIGH"

\* C26: an emitted text whose matched keywords include the broad keyword has
\* intent HIGH; an emitted text has intent LOW only if none of its matched
\* keywords contains "interview".
C26_EmittedInterviewIsHigh ==
    (verdict.done /\ verdict.emitted) =>
        /\ (\E i \in 1..Len(verdict.keywords) : verdict.keywords[i] = <<"interview">>)
              => verdict.intent = "HIGH"
        /\ verdict.intent = "LOW" =>
              \A i \in 1..Len(verdict.keywords) :
                  ~Contains(Lower(verdict.keywords[i]), <<"interview">>)

\* A text admitted through the relevance check has intent HIGH.
C26_Witness ==
    /\ verdict.done
    /\ verdict.keywords = CatchAll
    /\ verdict.relevant
    /\ verdict.emitted
    /\ verdict.intent = "HIGH"

(***************************************************************************)
(* The classifier while irrelevant signals are added to the configuration. *)
(***************************************************************************)
\* Phrases add_irrelevant_signal is called with.
IrrelevantPool == { <<"tips">>, <<"Tips">>, <<"leetcode">> }

InitIrr ==
    /\ text \in Texts
    /\ relevant_signals \in {<<>>, SignalPool}
    /\ irrelevant_signals = <<>>
    /\ verdict = NoVerdict
    /\ RotIdle
    /\ CfgIdle
    /\ ConcIdle
    /\ store = <<>>
    /\ ScanIdle

\* dynamic_config.add_irrelevant_signal(signal)
AddIrrelevantSignal(signal) ==
    /\ irrelevant_signals' =
           IF \A i \in 1..Len(irrelevant_signals) :
                  Lower(irrelevant_signals[i]) # Lower(signal)
           THEN Append(irrelevant_signals, signal)
           ELSE irrelevant_signals
    /\ UNCHANGED <<text, relevant_signals, verdict, notCls>>

\* A call of add_irrelevant_signal.
AddSomeIrrelevantSignal == \E signal \in IrrelevantPool : AddIrrelevantSignal(signal)

NextIrr ==
    \/ Classify
    \/ AddSomeIrrelevantSignal

SpecIrr == InitIrr /\ [][NextIrr]_vars

PostUrl(sub, id) == <<sub, id>>

\* generate_id(url): the first 12 hex digits of md5(url), taken as one id per url
GenerateId(url) == <<"md5", url>>

\* status values the status endpoint is called with
Statuses == {"pending", "in_progress", "skipped", "replied"}

\* reply_url values the reply endpoint is called with
ReplyUrls == {"", "https://reddit.com/r/a/comments/1/t/c1"}

\* feedback values the feedback endpoint is called with
Feedbacks == {"", "not relevant"}

\* generate_suggestion(result): one of the non-empty template texts
GenerateSuggestion == "comment"

\* The record append_opportunities stores for a result of trigger_scan
\* (status "pending", reply_url "", no feedback key).
NewOpportunity(sub, id) ==
    [id        |-> GenerateId(PostUrl(sub, id)),
     url       |-> PostUrl(sub, id),
     subreddit |-> sub,
     comment_suggestion |-> GenerateSuggestion,
     status    |-> "pending",
     reply_url |-> "",
     feedback  |-> ""]

\* Index of the first stored opportunity with this id, 0 if there is none
\* (for opp in data["opportunities"]: if opp.get("id") == opportunity_id: ... break).
FirstWithId(st, oid) ==
    IF \E i \in 1..Len(st) : st[i].id = oid
    THEN CHOOSE i \in 1..Len(st) : st[i].id = oid /\ \A j \in 1..(i - 1) : st[j].id # oid
    ELSE 0

\* get_existing_urls()
GetExistingUrls(st) == {st[i].url : i \in 1..Len(st)}

StoreForums == {"a", "b"}

StoreUrls == {PostUrl(sub, 1) : sub \in StoreForums}

InitStore ==
    /\ store = <<>>
    /\ RotIdle
    /\ CfgIdle
    /\ ConcIdle
    /\ ClsIdle
    /\ ScanIdle

\* append_opportunities([opp]) with a result of a scan
AppendOpportunities(sub) ==
    /\ Len(store) < MaxStore
    /\ store' = Append(store, NewOpportunity(sub, 1))
    /\ UNCHANGED notStore

\* update_opportunity_status(opportunity_id, status)
UpdateOpportunityStatus(oid, status) ==
    /\ store' = IF FirstWithId(store, oid) = 0 THEN store
                 ELSE [store EXCEPT ![FirstWithId(store, oid)].status = status]
    /\ UNCHANGED notStore

\* save_reply_url(opportunity_id, reply_url)
SaveReplyUrl(oid, reply_url) ==
    /\ store' = IF FirstWithId(store, oid) = 0 THEN store
                 ELSE [store EXCEPT ![FirstWithId(store, oid)].reply_url = reply_url,
                                    ![FirstWithId(store, oid)].status = "replied"]
    /\ UNCHANGED notStore

\* save_feedback(opportunity_id, feedback)
SaveFeedback(oid, feedback) ==
    /\ store' = IF FirstWithId(store, oid) = 0 THEN store
                 ELSE [store EXCEPT ![FirstWithId(store, oid)].feedback = feedback,
                                    ![FirstWithId(store, oid)].status = "skipped"]
    /\ UNCHANGED notStore

NextStore ==
    \/ \E sub \in StoreForums : AppendOpportunities(sub)
    \/ \E url \in StoreUrls, status \in Statuses : UpdateOpportunityStatus(GenerateId(url), status)
    \/ \E url \in StoreUrls, reply_url \in ReplyUrls : SaveReplyUrl(GenerateId(url), reply_url)
    \/ \E url \in StoreUrls, feedback \in Feedbacks : SaveFeedback(GenerateId(url), feedback)

SpecStore == InitStore /\ [][NextStore]_vars

\* C8 (as claimed): in every reachable store state every opportunity with
\* status "replied" has a non-empty reply_url and every opportunity with status
\* "skipped" has non-empty feedback.
C8_StatusHasCompanionField ==
    \A i \in 1..Len(store) :
        /\ store[i].status = "replied" => store[i].reply_url # ""
        /\ store[i].status = "skipped" => store[i].feedback # ""

(***************************************************************************)
(* The reply endpoint of main.py on either storage backend.                *)
(***************************************************************************)
\* The storage module main.py imports: supabase_storage or local_storage.
Backends == {"local", "supabase"}

\* How far a call of the endpoint gets: get_all_opportunities raises;
\* storage.save_reply_url raises; the update is written and a later step
\* raises (get_scanner or storage.save_comment_metric); nothing raises.
ReplyOutcomes == {"read_fails", "save_fails", "metric_fails", "ok"}

\* status and reply_url of the opportunity with this id
Snapshot(st, oid) ==
    IF FirstWithId(st, oid) = 0 THEN Absent
    ELSE [status |-> st[FirstWithId(st, oid)].status,
          reply_url |-> st[FirstWithId(st, oid)].reply_url]

\* The store after storage.save_reply_url(opportunity_id, reply_url)
WithReplyUrl(st, oid, reply_url) ==
    IF FirstWithId(st, oid) = 0 THEN st
    ELSE [st EXCEPT ![FirstWithId(st, oid)].reply_url = reply_url,
                    ![FirstWithId(st, oid)].status = "replied"]

\* PATCH /api/opportunities/{id}/reply.  The update is written before the
\* metric is saved; local_storage has no save_comment_metric, so with that
\* backend the call raises whenever the opportunity exists.
SaveReplyEndpoint(oid, reply_url, backend, outcome) ==
    /\ last_reply.backend \in {"none", backend}
    /\ outcome = "metric_fails" => FirstWithId(store, oid) # 0
    /\ outcome = "ok" => (FirstWithId(store, oid) = 0 \/ backend = "supabase")
    /\ store' = IF outcome \in {"metric_fails", "ok"}
                 THEN WithReplyUrl(store, oid, reply_url)
                 ELSE store
    /\ last_reply' = [done |-> TRUE, backend |-> backend, id |-> oid,
                      failed |-> outcome # "ok",
                      before |-> Snapshot(store, oid),
                      after |-> Snapshot(store', oid)]
    /\ UNCHANGED <<rotVars, cfgVars, concVars, clsVars, scanVars, before_reset>>

NextReply ==
    \/ \E sub \in StoreForums : AppendOpportunities(sub)
    \/ \E url \in StoreUrls, status \in Statuses : UpdateOpportunityStatus(GenerateId(url), status)
    \/ \E url \in StoreUrls, reply_url \in ReplyUrls, backend \in Backends,
          outcome \in ReplyOutcomes :
           SaveReplyEndpoint(GenerateId(url), reply_url, backend, outcome)

SpecReply == InitStore /\ [][NextReply]_vars

\* C29 (as claimed): when the reply endpoint reports a failure, the status
\* and the reply_url of the opportunity are what they were before the call.
C29_FailureLeavesOpportunity ==
    (last_reply.done /\ last_reply.failed) => last_reply.after = last_reply.before

(***************************************************************************)
(* The scan pipeline: trigger_scan and RedditScanner.scan_subreddit.       *)
(***************************************************************************)
\* Texts of the posts the forums hold: matched by a specific keyword, by the
\* broad keyword with a strong qualifier, by the broad keyword with a
\* disqualifier, and not matched at all.
ScanTexts ==
    { <<"interview", "Tips">>, <<"interview", "leetcode">>,
      <<"interview", "scam">>, <<"study">> }

PostIds == 1..MaxPosts

\* subreddit.new(limit): the ids of the forum's posts, newest first
ForumPosts(sub) ==
    SelectSeq([i \in 1..arrived |-> arrived + 1 - i], LAMBDA i : posts[i].subreddit = sub)

\* A fetch fault: iterating subreddit.new(...) of forum sub raises after it
\* yielded `after` posts (0: the listing request itself fails).
NoFault == [sub |-> "none", after |-> 0]

Faults == {NoFault} \cup [sub : ScanForums, after : 0..MaxPosts]

\* The posts the loop of scan_subreddit gets from subreddit.new(...) before
\* the iteration ends or raises into the except clause.
Yielded(sub, fault) ==
    IF fault.sub = sub
    THEN SubSeq(ForumPosts(sub), 1, Min(fault.after, Len(ForumPosts(sub))))
    ELSE ForumPosts(sub)

\* A scanner without the age cutoff.
FreshAnyAge(sub, seen, fault) == SelectSeq(Yielded(sub, fault), LAMBDA i : i \notin seen)

\* The posts of a forum scan_subreddit looks at: not older than the cutoff and
\* not in seen_posts; each of them is added to seen_posts.
Fresh(sub, seen, fault) ==
    SelectSeq(Yielded(sub, fault), LAMBDA i : i > old_upto /\ i \notin seen)

\* scan_subreddit(sub): the results it returns, given seen_posts.  The except
\* clause only prints: what was appended to results before the exception is
\* returned by the `return results` after it.
ScanSubreddit(sub, seen, fault) ==
    [results |-> SelectSeq(Fresh(sub, seen, fault), LAMBDA i : Accepted(posts[i].text)),
     seen    |-> seen \cup Range(Fresh(sub, seen, fault))]

\* for sub in next_subs: results.extend(scanner.scan_subreddit(sub, ...))
RECURSIVE ScanBatch(_, _, _)
ScanBatch(batch, seen, fault) ==
    IF batch = <<>> THEN [results |-> <<>>, seen |-> seen]
    ELSE LET head == ScanSubreddit(batch[1], seen, fault)
             rest == ScanBatch(Tail(batch), head.seen, fault)
         IN [results |-> head.results \o rest.results, seen |-> rest.seen]

\* A scan that appends every result, stored already or not.
NewResultsUnfiltered(results, existing) == results

\* new_results = [r for r in results if r["url"] not in existing_urls]
NewResults(results, existing) ==
    SelectSeq(results, LAMBDA i : PostUrl(posts[i].subreddit, i) \notin existing)

InitScan ==
    /\ posts \in [PostIds -> [subreddit : ScanForums, text : ScanTexts, score : {1}]]
    /\ arrived = 0
    /\ old_upto = 0
    /\ seen_posts = {}
    /\ store = <<>>
    /\ last_scan = NoScan
    /\ committed = NeverCommitted
    /\ before_reset = NeverReset
    /\ last_reply = NoReply
    /\ subreddits = [p \in Personas |-> IF p = "warmeggnog" THEN <<"a", "b">> ELSE <<>>]
    /\ set_order \in Orderings(ScanForums)
    /\ batch_size \in {1, DefaultSubredditsPerScan}
    /\ all_subreddits = <<>>
    /\ next_index = 0
    /\ last_batch = <<>>
    /\ calls = <<>>
    /\ relevant_signals = SignalPool
    /\ text = <<>>
    /\ verdict = NoVerdict
    /\ irrelevant_signals = <<>>
    /\ ConcIdle

\* trigger_scan.  fault is the fetch fault of this invocation, if any.
\* generated is FALSE when generator.generate_suggestion raises for one of the
\* new results, persisted is FALSE when that or storage.append_opportunities
\* raises: the exception reaches the handler's except clause, the invocation
\* answers 500 and nothing is stored.
TriggerScan(generated, persisted, fault) ==
    LET existing == GetExistingUrls(store)
        all      == GetAllSubreddits(subreddits, set_order)
        batch    == NextBatch(all, batch_size, next_index)
        scanned  == ScanBatch(batch, seen_posts, fault)
        new      == NewResults(scanned.results, existing)
        ok       == new = <<>> \/ persisted
        appended == new # <<>> /\ persisted
        same     == {f \in ScanForums : committed[f].done /\ committed[f].fetch = ForumPosts(f)}
    IN
    /\ ~generated => ~persisted
    /\ fault # NoFault => (fault.sub \in Range(batch) /\ fault.after <= Len(ForumPosts(fault.sub)))
    /\ new = <<>> => (generated /\ persisted)
    /\ next_index' = NewIndex(all, batch_size, next_index)
    /\ last_batch' = batch
    /\ seen_posts' = scanned.seen
    /\ store' = IF ok
                 THEN store \o [j \in 1..Len(new) |-> NewOpportunity(posts[new[j]].subreddit, new[j])]
                 ELSE store
    /\ last_scan' = [batch |-> batch, results |-> scanned.results, new |-> new, ok |-> ok,
                     before |-> same,
                     failed |-> IF fault = NoFault THEN {} ELSE {fault.sub},
                     generated |-> generated, total |-> Len(all), from |-> next_index]
    /\ committed' = [f \in ScanForums |->
                        IF appended /\ f \in Range(batch) /\ f # fault.sub
                        THEN [done |-> TRUE, fetch |-> ForumPosts(f)]
                        ELSE committed[f]]
    /\ UNCHANGED <<posts, arrived, old_upto, notScan>>

\* reset_scan: storage.reset_scan_state() and scanner.seen_posts.clear()
ResetScan ==
    /\ next_index' = 0
    /\ last_batch' = <<>>
    /\ seen_posts' = {}
    /\ UNCHANGED <<store, posts, arrived, old_upto, last_scan, committed, notScan>>

\* Somebody posts in a forum: the fetch result of that forum grows.
PostArrives ==
    /\ arrived < MaxPosts
    /\ arrived' = arrived + 1
    /\ UNCHANGED <<next_index, last_batch, store, seen_posts, posts, old_upto, last_scan,
                   committed, notScan>>

\* Time passes: the oldest post not yet older than max_post_age_hours becomes so.
PostAges ==
    /\ old_upto < arrived
    /\ old_upto' = old_upto + 1
    /\ UNCHANGED <<next_index, last_batch, store, seen_posts, posts, arrived, last_scan,
                   committed, notScan>>

\* Scans whose fetches succeed and whose append may fail.
NextScan ==
    \/ \E persisted \in BOOLEAN : TriggerScan(TRUE, persisted, NoFault)
    \/ ResetScan
    \/ PostArrives
    \/ PostAges

SpecScan == InitScan /\ [][NextScan]_vars

\* C7 (as claimed): when a scan processes a forum that an earlier scan
\* invocation processed and whose append succeeded (reset or not in between),
\* the fetch result of the forum being unchanged since, it adds no new
\* opportunity of that forum.
C7_SecondScanAddsNothing ==
    last_scan.ok =>
        \A j \in 1..Len(last_scan.new) :
            posts[last_scan.new[j]].subreddit \notin last_scan.before

\* A step of trigger_scan.
ScanStep ==
    \E generated, persisted \in BOOLEAN, fault \in Faults :
        TriggerScan(generated, persisted, fault)

\* C21 (as claimed): whether a post is emitted depends on the store's urls
\* only: when an invocation whose fetches succeeded answers with success,
\* every post of the forums of its batch that is within the age limit and
\* passes classification is in the store, also when an earlier invocation
\* fetched it and failed before its append.
C21_EmittedUnlessStored ==
    [][(ScanStep /\ last_scan'.ok /\ last_scan'.failed = {}) =>
          \A i \in 1..arrived :
              (/\ i > old_upto
               /\ posts[i].subreddit \in Range(last_scan'.batch)
               /\ Accepted(posts[i].text))
                  => PostUrl(posts[i].subreddit, i) \in GetExistingUrls(store')]_vars

(***************************************************************************)
(* Scans, resets and status updates executed one after the other, every    *)
(* post being one that passes classification.                              *)
(***************************************************************************)
InitSeq ==
    /\ posts \in [PostIds -> [subreddit : ScanForums, text : {<<"interview", "leetcode">>},
                               score : {1}]]
    /\ arrived = 0
    /\ old_upto = 0
    /\ seen_posts = {}
    /\ store = <<>>
    /\ last_scan = NoScan
    /\ committed = NeverCommitted
    /\ before_reset = NeverReset
    /\ last_reply = NoReply
    /\ subreddits = [p \in Personas |-> IF p = "warmeggnog" THEN <<"a", "b">> ELSE <<>>]
    /\ set_order \in Orderings(ScanForums)
    /\ RotIdle
    /\ ClsIdle
    /\ ConcIdle

NextSeq ==
    \/ \E persisted \in BOOLEAN : TriggerScan(TRUE, persisted, NoFault)
    \/ ResetScan
    \/ PostArrives
    \/ \E i \in PostIds :
           UpdateOpportunityStatus(GenerateId(PostUrl(posts[i].subreddit, i)), "in_progress")

SpecSeq == InitSeq /\ [][NextSeq]_vars

\* C22: whatever scans, resets and status updates ran one after the other,
\* no two stored opportunities have the same id, nor the same url.
C22_NoDuplicateOpportunity ==
    \A i, j \in 1..Len(store) :
        (store[i].id = store[j].id \/ store[i].url = store[j].url) => i = j

\* A rescan after a reset fetched stored posts again and appended none of them.
C22_Witness ==
    /\ Len(store) >= 2
    /\ last_scan.results # <<>>
    /\ last_scan.new = <<>>
    /\ \E i \in 1..Len(store) : store[i].status = "in_progress"

\* Scans of the configured forums while posts arrive and grow old.
NextAge ==
    \/ \E persisted \in BOOLEAN : TriggerScan(TRUE, persisted, NoFault)
    \/ PostArrives
    \/ PostAges

SpecAge == InitSeq /\ [][NextAge]_vars

\* C27: a post older than max_post_age_hours when the scan runs is not among
\* the results of the scan, although its text passes classification, and the
\* scan does not add it to seen_posts.
C27_OldPostsDiscarded ==
    [][ScanStep =>
          \A i \in 1..old_upto :
              /\ \A j \in 1..Len(last_scan'.results) : last_scan'.results[j] # i
              /\ i \in seen_posts' => i \in seen_posts]_vars

\* A scan looked at the newer post of a forum and passed over the older one,
\* which had aged beyond the cutoff unseen.
C27_Witness ==
    /\ arrived >= 2
    /\ old_upto >= 1
    /\ posts[1].subreddit = posts[2].subreddit
    /\ 2 \in seen_posts
    /\ 1 \notin seen_posts
    /\ Accepted(posts[1].text)
    /\ PostUrl(posts[1].subreddit, 1) \notin GetExistingUrls(store)

(***************************************************************************)
(* Scans of a batch holding both forums, with fetch faults and failing     *)
(* suggestion generation.                                                  *)
(***************************************************************************)
\* An accepted text and one no keyword matches.
FaultTexts == { <<"interview", "leetcode">>, <<"study">> }

InitFault ==
    /\ posts \in [PostIds -> [subreddit : ScanForums, text : FaultTexts, score : 1..MaxScore]]
    /\ arrived = 0
    /\ old_upto = 0
    /\ seen_posts = {}
    /\ store = <<>>
    /\ last_scan = NoScan
    /\ committed = NeverCommitted
    /\ before_reset = NeverReset
    /\ last_reply = NoReply
    /\ subreddits = [p \in Personas |-> IF p = "warmeggnog" THEN <<"a", "b">> ELSE <<>>]
    /\ set_order \in Orderings(ScanForums)
    /\ RotIdle
    /\ ClsIdle
    /\ ConcIdle

NextFault ==
    \/ \E generated, persisted \in BOOLEAN, fault \in Faults :
           TriggerScan(generated, persisted, fault)
    \/ PostArrives

SpecFault == InitFault /\ [][NextFault]_vars

\* C11 (as claimed): when the fetch of one forum of the batch fails, at the
\* listing request or part-way through its posts, and the invocation answers
\* with success, no result of the invocation comes from the failing forum.
C11_FailedForumContributesNothing ==
    (last_scan.failed # {} /\ last_scan.ok) =>
        \A j \in 1..Len(last_scan.results) :
            posts[last_scan.results[j]].subreddit \notin last_scan.failed

Intent(i) == GetIntentLevel(posts[i].text, MatchesKeywords(posts[i].text))

\* (x["intent"] != "HIGH", -x["score"]) of result i is not above that of result j
InReportOrder(i, j) ==
    \/ Intent(i) = "HIGH" /\ Intent(j) # "HIGH"
    \/ Intent(i) = Intent(j) /\ posts[i].score >= posts[j].score

\* C13 (as claimed): the new results an invocation appends are ordered HIGH
\* intent before LOW intent and by descending score within an intent tier.
C13_ReportedInIntentScoreOrder ==
    last_scan.ok =>
        \A i, j \in 1..Len(last_scan.new) :
            i < j => InReportOrder(last_scan.new[i], last_scan.new[j])

(***************************************************************************)
(* Scans while forums are added to and removed from a configuration that   *)
(* starts out, like the default configuration, without any forum.          *)
(***************************************************************************)
InitEmpty ==
    /\ subreddits = DefaultSubreddits
    /\ set_order \in Orderings(ScanForums)
    /\ batch_size \in {1, DefaultSubredditsPerScan}
    /\ all_subreddits = <<>>
    /\ next_index = 0
    /\ last_batch = <<>>
    /\ calls = <<>>
    /\ ConcIdle
    /\ ClsIdle
    /\ store = <<>>
    /\ ScanIdle

NextEmpty ==
    \/ \E sub \in ScanForums, persona \in Personas : AddSubreddit(sub, persona)
    \/ \E sub \in ScanForums : RemoveSubreddit(sub)
    \/ \E generated, persisted \in BOOLEAN, fault \in Faults :
           TriggerScan(generated, persisted, fault)

SpecEmpty == InitEmpty /\ [][NextEmpty]_vars

\* C17: a scan invocation that finds no forum configured gets an empty batch
\* from get_next_subreddits, leaves the cursor at 0 and answers with success
\* and no new opportunity.
C17_EmptyUniverseIsNoOp ==
    last_scan.total = 0 =>
        /\ last_scan.batch = <<>>
        /\ last_batch = <<>>
        /\ next_index = 0
        /\ last_scan.ok
        /\ last_scan.new = <<>>

\* A scan of the empty universe that found the cursor left behind by scans of
\* forums removed since.
C17_Witness ==
    /\ last_scan.total = 0
    /\ last_scan.from > 0
    /\ GetAllSubreddits(subreddits, set_order) = <<>>

====
